---- MODULE Spec2Model ----
(***************************************************************************)
(* Model of the RabbitMQ PowerShell remote controller:                     *)
(*   - the Output Parser (src/resolver.py), a pure function;               *)
(*   - the Dispatch Orchestrator (src/pwsh_handler.py): call_handler and   *)
(*     the per-host tasks process_invoking_command, as coroutines whose     *)
(*     steps are the code between two suspension points (await).           *)
(* Text is a sequence of symbols: a symbol is one character or one whole   *)
(* field name (field names hold no whitespace, colon or brace, and no      *)
(* field name of a schema is a substring of another).                      *)
(***************************************************************************)
EXTENDS Naturals, Sequences, FiniteSets

(*************************** bounds of the model ***************************)
\* number of chunks of text fed to the parser
MaxLines == 2
\* longest hostnames list of an inbound message
MaxHosts == 2

(***************************** Output Parser *******************************)
\* src/service_framework/share_files/pwsh_commands.py
E_SET_MP_PREFERENCE == "Set-MpPreference"
R_START_MP_SCAN == "Start-MpScan"
E_UPDATE_MP_SIGNATURE == "Update-MpSignature"
GET_MP_PREFERENCE == "Get-MpPreference"
GET_MP_COMPUTER_STATUS == "Get-MpComputerStatus"
GET_MP_THREAT == "Get-MpThreat"

COMMANDS_IN_USE ==
    <<E_SET_MP_PREFERENCE, R_START_MP_SCAN, E_UPDATE_MP_SIGNATURE,
      GET_MP_PREFERENCE, GET_MP_COMPUTER_STATUS>>

Range(s) == {s[i] : i \in 1..Len(s)}

\* MpPreferencesModel.schema()['properties'].keys(): the aliases (to_camel)
\* of the fields of BaseParameters, then of MpPreferencesModel, in
\* declaration order.
get_mp_prefs_list ==
    <<"CimSession",
      "ThrottleLimit",
      "AsJob",
      "ExclusionPath",
      "ExclusionExtension",
      "ExclusionProcess",
      "RealTimeScanDirection",
      "QuarantinePurgeItemsAfterDelay",
      "RemediationScheduleDay",
      "RemediationScheduleTime",
      "ReportingAdditionalActionTimeOut",
      "ReportingCriticalFailureTimeOut",
      "ReportingNonCriticalTimeOut",
      "ScanAvgCPULoadFactor",
      "CheckForSignaturesBeforeRunningScan",
      "ScanPurgeItemsAfterDelay",
      "ScanOnlyIfIdleEnabled",
      "ScanParameters",
      "ScanScheduleDay",
      "ScanScheduleQuickScanTime",
      "ScanScheduleTime",
      "SignatureFirstAuGracePeriod",
      "SignatureAuGracePeriod",
      "SignatureDefinitionUpdateFileSharesSources",
      "SignatureDisableUpdateOnStartupWithoutEngine",
      "SignatureFallbackOrder",
      "SignatureScheduleDay",
      "SignatureScheduleTime",
      "SignatureUpdateCatchupInterval",
      "SignatureUpdateInterval",
      "MAPSReporting",
      "SubmitSamplesConsent",
      "DisableAutoExclusions",
      "DisablePrivacyMode",
      "RandomizeScheduleTaskTimes",
      "DisableBehaviorMonitoring",
      "DisableIOAVProtection",
      "DisableRealtimeMonitoring",
      "DisableScriptScanning",
      "DisableArchiveScanning",
      "DisableCatchupFullScan",
      "DisableCatchupQuickScan",
      "DisableCpuThrottleOnIdleScans",
      "DisableEmailScanning",
      "DisableRemovableDriveScanning",
      "DisableRestorePoint",
      "DisableScanningMappedNetworkDrivesForFullScan",
      "DisableScanningNetworkFiles",
      "UILockdown",
      "ThreatIDDefaultAction_Ids",
      "ThreatIDDefaultAction_Actions",
      "UnknownThreatDefaultAction",
      "LowThreatDefaultAction",
      "ModerateThreatDefaultAction",
      "HighThreatDefaultAction",
      "SevereThreatDefaultAction",
      "DisableBlockAtFirstSeen",
      "PUAProtection",
      "DefinitionUpdatesChannel",
      "EngineUpdatesChannel",
      "PlatformUpdatesChannel">>

get_status_pref_list ==
    <<"AntivirusSignatureLastUpdated",
      "AntivirusSignatureVersion",
      "AntivirusEnabled">>

\* the events that have a field schema (the keys of the dict get_prefs_list)
PrefsListEvents == {GET_MP_PREFERENCE, GET_MP_COMPUTER_STATUS}

get_prefs_list(event) ==
    IF event = GET_MP_PREFERENCE THEN get_mp_prefs_list ELSE get_status_pref_list

\* the characters of class \s, and the decimal digits, of the text alphabet
Whitespace == {" ", "\n", "\t"}
Digits == <<"0", "1", "2", "3", "4", "5", "6", "7", "8", "9">>
HexDigits == Digits \o <<"a", "b", "c", "d", "e", "f">>

\* first position >= i of s that holds no whitespace (Len(s)+1 if none): \s*
RECURSIVE SkipWs(_, _)
SkipWs(s, i) ==
    IF i <= Len(s) /\ s[i] \in Whitespace THEN SkipWs(s, i + 1) ELSE i

\* first position >= i of s that holds a newline (Len(s)+1 if none): the
\* greedy (.+) stops there, '.' matching everything but a newline
RECURSIVE LineEnd(_, _)
LineEnd(s, i) ==
    IF i <= Len(s) /\ s[i] # "\n" THEN LineEnd(s, i + 1) ELSE i

\* the pattern  {name}\s*\:\s(.+)\n  matched at position i of s
MatchAt(s, i, name) ==
    /\ s[i] = name
    /\ LET c == SkipWs(s, i + 1)
       IN  /\ c + 2 <= Len(s)
           /\ s[c] = ":"
           /\ s[c + 1] \in Whitespace
           /\ LineEnd(s, c + 2) > c + 2
           /\ LineEnd(s, c + 2) <= Len(s)

\* rslt.group(1) of the match at position i
Group1(s, i) ==
    LET p == SkipWs(s, i + 1) + 2
    IN  SubSeq(s, p, LineEnd(s, p) - 1)

\* re.search: the leftmost position at which the pattern matches, 0 if none
re_search(name, s) ==
    LET found == {i \in 1..Len(s) : MatchAt(s, i, name)}
    IN  IF found = {} THEN 0 ELSE CHOOSE i \in found : \A j \in found : i <= j

\* .replace('{', '').replace('}', '')
RECURSIVE RemoveBraces(_)
RemoveBraces(s) ==
    IF s = <<>> THEN <<>>
    ELSE IF Head(s) \in {"{", "}"} THEN RemoveBraces(Tail(s))
    ELSE <<Head(s)>> \o RemoveBraces(Tail(s))

\* .strip().rstrip()
RECURSIVE LStrip(_)
LStrip(s) ==
    IF s # <<>> /\ Head(s) \in Whitespace THEN LStrip(Tail(s)) ELSE s

RECURSIVE RStrip(_)
RStrip(s) ==
    IF s # <<>> /\ s[Len(s)] \in Whitespace
    THEN RStrip(SubSeq(s, 1, Len(s) - 1)) ELSE s

Strip(s) == RStrip(LStrip(s))

\* str.isdigit() on the text alphabet
isdigit(s) == s # <<>> /\ \A i \in 1..Len(s) : s[i] \in Range(Digits)

DigitValue(c) == (CHOOSE k \in 1..Len(Digits) : Digits[k] = c) - 1

\* int(v) of a string of decimal digits
RECURSIVE int(_)
int(s) ==
    IF s = <<>> THEN 0
    ELSE 10 * int(SubSeq(s, 1, Len(s) - 1)) + DigitValue(s[Len(s)])

RECURSIVE HexString(_)
HexString(n) ==
    IF n < 16 THEN <<HexDigits[n + 1]>>
    ELSE HexString(n \div 16) \o <<HexDigits[(n % 16) + 1]>>

\* hex(n) for n >= 0
hex(n) == <<"0", "x">> \o HexString(n)

\* faulty variant: the digits are not converted
CleanValueKeepDecimal(captured) == Strip(RemoveBraces(captured))

\* tmp_value of resolve_preferences, from the captured group

CleanValue(captured) ==
    LET tmp_value == Strip(RemoveBraces(captured))
    IN  IF isdigit(tmp_value) THEN hex(int(tmp_value)) ELSE tmp_value

\* faulty variant: the records in their order of appearance in the text
RECURSIVE TextOrderFrom(_, _, _)
TextOrderFrom(raw_prefs, prefs, i) ==
    IF i > Len(raw_prefs) THEN <<>>
    ELSE (IF \E k \in 1..Len(prefs) : MatchAt(raw_prefs, i, prefs[k])
          THEN <<[pref_name |-> raw_prefs[i],
                  pref_val |-> CleanValue(Group1(raw_prefs, i))]>>
          ELSE <<>>)
         \o TextOrderFrom(raw_prefs, prefs, i + 1)

ParsedPrefsByTextOrder(raw_prefs, prefs, n) == TextOrderFrom(raw_prefs, prefs, 1)

\* the loop of resolve_preferences over the first n fields of the list
RECURSIVE ParsedPrefsUpTo(_, _, _)
ParsedPrefsUpTo(raw_prefs, prefs, n) ==
    IF n = 0 THEN <<>>
    ELSE LET rslt == re_search(prefs[n], raw_prefs)
         IN  ParsedPrefsUpTo(raw_prefs, prefs, n - 1)
             \o (IF rslt # 0
                 THEN <<[pref_name |-> prefs[n],
                         pref_val |-> CleanValue(Group1(raw_prefs, rslt))]>>
                 ELSE <<>>)

\* resolve_preferences(raw_prefs, event): the list returned, or the
\* exception raised (get_prefs_list.get(event) is None for an event without
\* a field schema, and None() raises TypeError)
resolve_preferences(raw_prefs, event) ==
    IF event \notin PrefsListEvents
    THEN [raised |-> "TypeError", prefs |-> <<>>]
    ELSE [raised |-> "",
          prefs |-> ParsedPrefsUpTo(raw_prefs, get_prefs_list(event),
                                    Len(get_prefs_list(event)))]


(************************** Dispatch Orchestrator **************************)
\* the four publish routes of config.route_publish, by index
ROUTE_ERROR == 0
ROUTE_NOTIFY == 1
ROUTE_SETTINGS == 2
ROUTE_STATUS == 3

ERROR_CAT == "__PowerShell error"

Hosts == <<"h1", "h2", "h3">>

\* hostnames lists of at most MaxHosts entries, up to a renaming of the
\* hosts: entry i is one of the first i hosts (so lists with a repeated
\* hostname and lists of distinct hostnames both occur)
HostLists ==
    UNION {{hs \in [1..n -> Range(Hosts)] :
               \A i \in 1..n : \E k \in 1..i : hs[i] = Hosts[k]} : n \in 0..MaxHosts}

TaskIds == {42}

\* preferences mappings of the requests, as sets of <<key, value>>
NoPreferences == {}
Preferences ==
    {NoPreferences, {<<"ScanParameters", 1>>}, {<<"ScanParameters", 7>>}}

BodyKeys == {"hostnames", "task_id", "event", "preferences"}

\* an inbound message body: json = FALSE is a body json.loads rejects;
\* keys are the fields the JSON object holds
Body(json, keys, hostnames, task_id, event, preferences) ==
    [json |-> json, keys |-> keys, hostnames |-> hostnames,
     task_id |-> task_id, event |-> event, preferences |-> preferences]

RawBodies ==
    {Body(TRUE, BodyKeys, hs, t, e, p) :
        hs \in HostLists, t \in TaskIds, e \in Range(COMMANDS_IN_USE),
        p \in Preferences}
    \cup {Body(FALSE, {}, <<>>, 42, "", NoPreferences),
          Body(TRUE, BodyKeys \ {"task_id"}, <<"h1">>, 42, GET_MP_PREFERENCE,
               NoPreferences),
          Body(TRUE, BodyKeys \ {"hostnames"}, <<>>, 42, GET_MP_PREFERENCE,
               NoPreferences),
          Body(TRUE, BodyKeys \ {"event"}, <<"h1">>, 42, "", NoPreferences),
          Body(TRUE, BodyKeys, <<"h1">>, 42, GET_MP_THREAT, NoPreferences),
          Body(TRUE, BodyKeys \ {"preferences"}, <<"h1">>, 42,
               GET_MP_COMPUTER_STATUS, NoPreferences)}

\* faulty variant: the validator _event_valid is left out
BodyModelAnyEvent(raw_body) ==
    /\ raw_body.json
    /\ {"hostnames", "task_id", "event"} \subseteq raw_body.keys

\* BodyModel(**json.loads(raw_body)) validates: hostnames, task_id and event
\* are required, event must be one of COMMANDS_IN_USE; preferences
\* defaults to {}
BodyModel(raw_body) ==
    /\ raw_body.json
    /\ {"hostnames", "task_id", "event"} \subseteq raw_body.keys
    /\ raw_body.event \in Range(COMMANDS_IN_USE)

\* get_body: TRUE when a BodyModel is returned, FALSE when the exception
\* is logged and None is returned
get_body(raw_body) == BodyModel(raw_body)

\* the aliases of the fields of the model that get_model(event) returns
BaseParameters == {"CimSession", "ThrottleLimit", "AsJob"}

get_model(event) ==
    IF event = E_SET_MP_PREFERENCE THEN Range(get_mp_prefs_list)
    ELSE IF event = R_START_MP_SCAN
         THEN BaseParameters \cup {"ScanPath", "ScanTypePref"}
    ELSE IF event = E_UPDATE_MP_SIGNATURE
         THEN BaseParameters \cup {"UpdateSource"}
    ELSE BaseParameters

\* ScanTypePref of preferences_model.py: keys of the acceptable values
ScanTypePref == {1, 2}

\* get_model(event)(**preferences): extra = 'forbid' rejects a key that is
\* no field of the model, _scan_parameters_valid a value not acceptable
PreferencesValid(event, preferences) ==
    \A kv \in preferences :
        /\ kv[1] \in get_model(event)
        /\ kv[1] = "ScanParameters" => kv[2] \in ScanTypePref

\* what the Remote Command Runner returns: standard output and error text
NoText == <<>>
Outs ==
    {NoText,
     <<"AntivirusEnabled", " ", ":", " ", "T", "\n",
       "ScanParameters", " ", ":", " ", "1", "\n">>}
Errs == {NoText, <<"e">>, <<"e", "r">>}

VARIABLES
    raw_text,    \* parser: the text fed so far
    fed,         \* parser: the number of chunks fed
    parsed,      \* parser: the last call of resolve_preferences
    message,     \* the raw body handed to call_handler (NoMessage before)
    handler,     \* the state of the call_handler task
    tasks,       \* the per-host tasks of the job, in creation order
    outbox,      \* the calls of the publisher for the job, in call order
    acked,       \* the acknowledgments sent to the bus for the message
    has_connection,  \* RabbitClientAsync.has_connection
    has_channel,     \* RabbitClientAsync.has_channel
    connection,      \* RabbitClientAsync.connection: "None", "open" or "closed"
    callers,     \* the coroutines running a broker operation
    begun,       \* the number of broker operations begun
    fault_log,   \* the last fault an operation of the broker caught
    invocations, \* the messages the bus delivered: how far each one's handling got
    topology,    \* the exchanges, queues and bindings declared on the bus
    declarations,    \* the declare and bind calls that returned, in order
    stopper,     \* the state of the last call of RabbitBrokerAsync.stop
    stops,       \* the number of calls of stop
    channel,     \* RabbitClientAsync.channel: "None", or whether it was opened on
                 \* the connection held ("current") or on an earlier one
    opening,     \* per coroutine, the connection its pending connection.channel()
                 \* was called on ("" when it has no such call pending)
    connections, \* the connections connect_robust returned, in order: each
                 \* "open" or "closed"; the last one is self.connection
    prefetch,    \* set_qos on self.channel: "None" without a channel, the
                 \* coroutine whose call is pending, "set", or "unset" once
                 \* the call raised
    config,      \* the service configuration and its record of the routes file
    service,     \* how far launch_service got
    signalled,   \* the signals received
    coordinators,    \* the _process_sig_callback tasks, in creation order
    stopping     \* what the shutdown did so far: stop(), stop_handler(), loop.stop()

parser_vars == <<raw_text, fed, parsed>>
dispatch_vars == <<message, handler, tasks, outbox, acked>>
bus_vars == <<topology, declarations>>
stop_vars == <<stopper, stops>>
object_vars == <<channel, opening>>
gateway_vars == <<bus_vars, stop_vars, object_vars, connections, prefetch>>
broker_vars ==
    <<has_connection, has_channel, connection, callers, begun, fault_log,
      invocations, topology, declarations, stopper, stops, channel, opening,
      connections, prefetch>>
service_vars == <<config, service, signalled, coordinators, stopping>>
vars ==
    <<raw_text, fed, parsed, message, handler, tasks, outbox, acked,
      has_connection, has_channel, connection, callers, begun, fault_log,
      invocations, topology, declarations, stopper, stops, channel, opening,
      connections, prefetch, config, service, signalled, coordinators, stopping>>

NoMessage == Body(FALSE, {}, <<>>, 0, "", NoPreferences)

\* a call of publisher(destination, body) made by task k of the job (0 is
\* call_handler itself)
Call(route, k, host_ip, task_id, preferences, text) ==
    [route |-> route, task |-> k, host_ip |-> host_ip, task_id |-> task_id,
     preferences |-> preferences, message |-> text,
     category |-> IF route = ROUTE_ERROR THEN ERROR_CAT ELSE ""]

NewTask(hostname) ==
    [hostname |-> hostname, pc |-> "created", out |-> NoText, err |-> NoText,
     runner |-> "", invoked |-> 0, exc |-> ""]

NotCalled == [called |-> FALSE, event |-> "", raised |-> "", prefs |-> <<>>]

InitParser == raw_text = <<>> /\ fed = 0 /\ parsed = NotCalled

InitDispatch ==
    /\ message = NoMessage
    /\ handler = "idle"
    /\ tasks = <<>>
    /\ outbox = <<>>
    /\ acked = 0

\* the coroutines that call the broker
Callers == {"c1", "c2"}

NoCaller ==
    [op |-> "", stage |-> 0, pc |-> "", depth |-> 0, exchange_object |-> "unset",
     queue_object |-> "unset", status |-> "idle", exc |-> "", at |-> ""]

NoFault == [op |-> "", exc |-> "", before |-> <<FALSE, FALSE>>, after |-> <<FALSE, FALSE>>]

\* RabbitClientAsync.__init__
InitBroker ==
    /\ has_connection = FALSE
    /\ has_channel = FALSE
    /\ connection = "None"
    /\ callers = [c \in Callers |-> NoCaller]
    /\ begun = 0
    /\ fault_log = NoFault
    /\ invocations = <<>>
    /\ topology = {}
    /\ declarations = <<>>
    /\ stopper = "idle"
    /\ stops = 0
    /\ channel = "None"
    /\ opening = [c \in Callers |-> ""]
    /\ connections = <<>>
    /\ prefetch = "None"

\* a service of type 'all' with a record in the routes file that holds a
\* consume route and four publish routes, its consumer started
RunningConfig ==
    [type |-> "all", record |-> TRUE, consume |-> "direct",
     publish |-> [present |-> TRUE,
                  routes |-> <<"direct", "direct", "direct", "direct">>]]

InitShutdown ==
    /\ signalled = {}
    /\ coordinators = <<>>
    /\ stopping = <<>>

InitRunning ==
    /\ config = RunningConfig
    /\ service = "running"
    /\ InitShutdown

Init == InitParser /\ InitDispatch /\ InitBroker /\ InitRunning

\* faulty variant: the acknowledgment is left to the end of the handler
DeliverAckDeferred(raw_body) ==
    /\ handler = "idle"
    /\ message' = raw_body
    /\ handler' = "created"
    /\ UNCHANGED <<tasks, outbox, acked>>
    /\ UNCHANGED <<parser_vars, broker_vars, service_vars>>

\* RabbitBrokerAsync._callback: inside message.process() the message body
\* is handed to a new call_handler task, which create_task only schedules;
\* the block is left at once and normally, and message.process()
\* acknowledges the message on a normal exit (it rejects it on an exception)
Deliver(raw_body) ==
    /\ handler = "idle"
    /\ message' = raw_body
    /\ handler' = "created"
    /\ acked' = acked + 1
    /\ UNCHANGED <<tasks, outbox>>
    /\ UNCHANGED <<parser_vars, broker_vars, service_vars>>

\* faulty variant: the per-host tasks are created before the publisher is awaited
HandlerStartTasksFirst ==
    /\ handler = "created"
    /\ IF get_body(message)
       THEN /\ handler' = "publish_notify"
            /\ outbox' = Append(outbox, Call(ROUTE_NOTIFY, 0, "", message.task_id,
                                             <<>>, <<>>))
            /\ tasks' = [i \in 1..Len(message.hostnames) |->
                             NewTask(message.hostnames[i])]
       ELSE /\ handler' = "failed"
            /\ outbox' = outbox
            /\ tasks' = tasks
    /\ UNCHANGED message
    /\ UNCHANGED <<acked, parser_vars, broker_vars, service_vars>>

\* call_handler up to its first suspension: get_body, then the call of the
\* publisher for the receipt-acknowledgment; decrypted_body.task_id raises
\* AttributeError when get_body returned None
HandlerStart ==
    /\ handler = "created"
    /\ IF get_body(message)
       THEN /\ handler' = "publish_notify"
            /\ outbox' = Append(outbox, Call(ROUTE_NOTIFY, 0, "", message.task_id,
                                             <<>>, <<>>))
       ELSE /\ handler' = "failed"
            /\ outbox' = outbox
    /\ UNCHANGED <<message, tasks>>
    /\ UNCHANGED <<acked, parser_vars, broker_vars, service_vars>>

\* the publisher returned: the loop over decrypted_body.hostnames creates
\* one task per entry, with no suspension in between
HandlerSpawn ==
    /\ handler = "publish_notify"
    /\ handler' = "done"
    /\ tasks' = [i \in 1..Len(message.hostnames) |-> NewTask(message.hostnames[i])]
    /\ UNCHANGED <<message, outbox>>
    /\ UNCHANGED <<acked, parser_vars, broker_vars, service_vars>>

\* the publisher raised (check_connection lets the exceptions of
\* create_channel through): call_handler ends with that exception
HandlerPublishRaised ==
    /\ handler = "publish_notify"
    /\ handler' = "failed"
    /\ UNCHANGED <<message, tasks, outbox>>
    /\ UNCHANGED <<acked, parser_vars, broker_vars, service_vars>>

\* decrypted_body.preferences: the default {} when the body holds none
BodyPreferences(raw_body) ==
    IF "preferences" \in raw_body.keys THEN raw_body.preferences ELSE {}

ErrorCall(k, hostname, text) ==
    Call(ROUTE_ERROR, k, hostname, 0, <<>>, text)

\* process_invoking_command from 'if err and len(err) > 1' on: the next
\* state of task t (index k) and the publisher calls it makes
RouteErr(t, k) ==
    IF t.err # NoText /\ Len(t.err) > 1
    THEN [task |-> [t EXCEPT !.pc = "publish_error"],
          calls |-> <<ErrorCall(k, t.hostname, t.err)>>]
    ELSE [task |-> [t EXCEPT !.pc = "done"], calls |-> <<>>]

\* faulty variant: the two result routes are swapped
RouteOutSwapped(t, k, event) ==
    IF t.out # NoText
    THEN LET rp == resolve_preferences(t.out, event)
             msg(route) == Call(route, k, t.hostname, 0, rp.prefs, <<>>)
         IN  IF rp.raised # ""
             THEN [task |-> [t EXCEPT !.pc = "failed", !.exc = rp.raised],
                   calls |-> <<>>]
             ELSE IF event = GET_MP_PREFERENCE
             THEN [task |-> [t EXCEPT !.pc = "publish_result"],
                   calls |-> <<msg(ROUTE_STATUS)>>]
             ELSE IF event = GET_MP_COMPUTER_STATUS
             THEN [task |-> [t EXCEPT !.pc = "publish_result"],
                   calls |-> <<msg(ROUTE_SETTINGS)>>]
             ELSE RouteErr(t, k)
    ELSE RouteErr(t, k)

\* process_invoking_command from 'if out:' up to the next suspension
RouteOut(t, k, event) ==
    IF t.out # NoText
    THEN LET rp == resolve_preferences(t.out, event)
             msg(route) == Call(route, k, t.hostname, 0, rp.prefs, <<>>)
         IN  IF rp.raised # ""
             THEN [task |-> [t EXCEPT !.pc = "failed", !.exc = rp.raised],
                   calls |-> <<>>]
             ELSE IF event = GET_MP_PREFERENCE
             THEN [task |-> [t EXCEPT !.pc = "publish_result"],
                   calls |-> <<msg(ROUTE_SETTINGS)>>]
             ELSE IF event = GET_MP_COMPUTER_STATUS
             THEN [task |-> [t EXCEPT !.pc = "publish_result"],
                   calls |-> <<msg(ROUTE_STATUS)>>]
             ELSE RouteErr(t, k)
    ELSE RouteErr(t, k)

\* faulty variant: the error message is handed to the publisher twice
ExceptPublishTwice(t, k, exception) ==
    [task |-> [t EXCEPT !.pc = "publish_exception", !.exc = exception],
     calls |-> <<ErrorCall(k, t.hostname, <<exception>>),
                 ErrorCall(k, t.hostname, <<exception>>)>>]

\* the 'except Exception' branch up to its suspension: the error message
\* is handed to the publisher
Except(t, k, exception) ==
    [task |-> [t EXCEPT !.pc = "publish_exception", !.exc = exception],
     calls |-> <<ErrorCall(k, t.hostname, <<exception>>)>>]

\* faulty variant: the failure of a task cancels the tasks of the other
\* hosts, as tasks awaited together would be
TaskStepCancelSiblings(k, next) ==
    /\ tasks' = [j \in 1..Len(tasks) |->
                    IF j = k THEN next.task
                    ELSE IF next.task.pc = "failed" /\ tasks[j].pc \notin {"done", "failed"}
                    THEN [tasks[j] EXCEPT !.pc = "failed", !.exc = "CancelledError"]
                    ELSE tasks[j]]
    /\ outbox' = outbox \o next.calls
    /\ UNCHANGED <<message, handler>>
    /\ UNCHANGED <<acked, parser_vars, broker_vars, service_vars>>

\* the step of task k to next
TaskStep(k, next) ==
    /\ tasks' = [tasks EXCEPT ![k] = next.task]
    /\ outbox' = outbox \o next.calls
    /\ UNCHANGED <<message, handler>>
    /\ UNCHANGED <<acked, parser_vars, broker_vars, service_vars>>

\* process_invoking_command up to its first suspension: the preferences
\* are validated, then the runner is called
TaskStart(k) ==
    /\ tasks[k].pc = "created"
    /\ IF PreferencesValid(message.event, BodyPreferences(message))
       THEN TaskStep(k, [task |-> [tasks[k] EXCEPT !.pc = "invoke",
                                                   !.invoked = @ + 1],
                         calls |-> <<>>])
       ELSE TaskStep(k, Except(tasks[k], k, "ValidationError"))

\* client.invoke_command returned (out, err)
RunnerReturned(k, out, err) ==
    /\ tasks[k].pc = "invoke"
    /\ TaskStep(k, RouteOut([tasks[k] EXCEPT !.out = out, !.err = err,
                                             !.runner = "returned"],
                            k, message.event))

\* client.invoke_command raised
RunnerRaised(k) ==
    /\ tasks[k].pc = "invoke"
    /\ TaskStep(k, Except([tasks[k] EXCEPT !.runner = "raised"], k,
                           "RunnerError"))

\* faulty variant: the except branch does not re-raise
PublishReturnedSwallowed(k) ==
    LET t == tasks[k]
    IN  \/ /\ t.pc = "publish_result"
           /\ TaskStep(k, RouteErr(t, k))
        \/ /\ t.pc \in {"publish_error", "publish_exception"}
           /\ TaskStep(k, [task |-> [t EXCEPT !.pc = "done"], calls |-> <<>>])

\* the publisher returned to task k: after the result, the check of err;
\* after the error of the except branch, 'raise'
PublishReturned(k) ==
    LET t == tasks[k]
    IN  \/ /\ t.pc = "publish_result"
           /\ TaskStep(k, RouteErr(t, k))
        \/ /\ t.pc = "publish_error"
           /\ TaskStep(k, [task |-> [t EXCEPT !.pc = "done"], calls |-> <<>>])
        \/ /\ t.pc = "publish_exception"
           /\ TaskStep(k, [task |-> [t EXCEPT !.pc = "failed"], calls |-> <<>>])

\* the publisher raised in task k: none of the three calls is in a try
\* block that would catch it
PublishRaised(k) ==
    /\ tasks[k].pc \in {"publish_result", "publish_error", "publish_exception"}
    /\ TaskStep(k, [task |-> [tasks[k] EXCEPT !.pc = "failed",
                                              !.exc = "PublishError"],
                    calls |-> <<>>])

\* a step of process_invoking_command for task k
TaskNext(k) ==
    \/ TaskStart(k)
    \/ \E out \in Outs, err \in Errs : RunnerReturned(k, out, err)
    \/ RunnerRaised(k)
    \/ PublishReturned(k)
    \/ PublishRaised(k)

(************************* the parser on its own ***************************)
\* the field names that occur in the texts fed to the parser
TextNames ==
    {"AntivirusEnabled", "AntivirusSignatureVersion", "ScanParameters"}

\* what follows a field name in a chunk of text
Tails ==
    {<<" ", ":", " ", "1", "\n">>,
     <<":", " ", "0", "1", "0", "\n">>,
     <<" ", ":", " ", "-", "1", "\n">>,
     <<" ", ":", " ", "{", "1", ",", " ", "2", "}", "\n">>,
     <<":", "\t", "{", "7", "}", "\n">>,
     <<" ", ":", " ", " ", "a", " ", "\n">>,
     <<" ", ":", " ", "a">>,
     <<":", "a", "\n">>,
     <<":", "\n">>,
     <<":", " ", " ", "\n">>}

Chunks == {<<name>> \o tail : name \in TextNames, tail \in Tails} \cup {<<"a", "\n">>}

\* one more chunk of the runner's standard output
Feed(chunk) ==
    /\ ~parsed.called
    /\ fed < MaxLines
    /\ raw_text' = raw_text \o chunk
    /\ fed' = fed + 1
    /\ UNCHANGED parsed
    /\ UNCHANGED <<dispatch_vars, broker_vars, service_vars>>

\* the call resolve_preferences(raw_prefs = raw_text, event)
Resolve(event) ==
    /\ ~parsed.called
    /\ LET rp == resolve_preferences(raw_text, event)
       IN  parsed' = [called |-> TRUE, event |-> event, raised |-> rp.raised,
                      prefs |-> rp.prefs]
    /\ UNCHANGED <<raw_text, fed>>
    /\ UNCHANGED <<dispatch_vars, broker_vars, service_vars>>

NextParser ==
    \/ \E chunk \in Chunks : Feed(chunk)
    \/ \E event \in Range(COMMANDS_IN_USE) : Resolve(event)

SpecParser == Init /\ [][NextParser]_vars

(**************************** the dispatch *********************************)
Next ==
    \/ \E raw_body \in RawBodies : Deliver(raw_body)
    \/ HandlerStart
    \/ HandlerSpawn
    \/ HandlerPublishRaised
    \/ \E k \in 1..Len(tasks) : TaskStart(k)
    \/ \E k \in 1..Len(tasks) :
           \E out \in Outs, err \in Errs : RunnerReturned(k, out, err)
    \/ \E k \in 1..Len(tasks) : RunnerRaised(k)
    \/ \E k \in 1..Len(tasks) : PublishReturned(k)
    \/ \E k \in 1..Len(tasks) : PublishRaised(k)

Spec == Init /\ [][Next]_vars


(******************************* properties ********************************)
\* the supported command set and a valid Job Request, as the specification
\* words them
SupportedEvents ==
    {"Set-MpPreference", "Start-MpScan", "Update-MpSignature",
     "Get-MpPreference", "Get-MpComputerStatus"}

ValidRequest(m) ==
    /\ m.json
    /\ {"hostnames", "task_id", "event"} \subseteq m.keys
    /\ m.event \in SupportedEvents

Delivered == handler # "idle"

\* the positions of the outbox that hold a call of task k on one of routes
CallsOf(k, routes) ==
    {i \in 1..Len(outbox) : outbox[i].task = k /\ outbox[i].route \in routes}

ResultRoutes == {ROUTE_SETTINGS, ROUTE_STATUS}

Terminal == {"done", "failed"}

\* C1: the publisher call for the receipt-acknowledgment has returned
\* before any per-host task of the job exists, and every call of the
\* publisher for a per-host result (settings, status, error) comes after
\* the call for the receipt-acknowledgment.
C1_NotifyBeforeTasks ==
    /\ tasks # <<>> => handler = "done"
    /\ \A i \in 1..Len(outbox) :
           outbox[i].route # ROUTE_NOTIFY
           => \E j \in 1..(i - 1) :
                  outbox[j].route = ROUTE_NOTIFY /\ outbox[j].task = 0

C1_Witness ==
    /\ Len(outbox) >= 3
    /\ outbox[1].route = ROUTE_NOTIFY
    /\ \E i \in 1..Len(outbox) : outbox[i].route \in ResultRoutes
    /\ \E i \in 1..Len(outbox) : outbox[i].route = ROUTE_ERROR

\* C2: for a valid Job Request with H hostnames the publisher is called
\* exactly once for the receipt-acknowledgment, with the task_id of the
\* request, and at most 2*H times for results: per hostname entry at most
\* once for settings/status and at most once for an error.
C2_OneNotifyAtMostTwoPerHost ==
    (ValidRequest(message) /\ handler \notin {"idle", "created"})
    => LET H == Len(message.hostnames)
           notify == {i \in 1..Len(outbox) : outbox[i].route = ROUTE_NOTIFY}
       IN  /\ Cardinality(notify) = 1
           /\ \A i \in notify : outbox[i].task_id = message.task_id
           /\ \A i \in 1..Len(outbox) : outbox[i].task \in 0..H
           /\ \A k \in 1..H :
                  /\ Cardinality(CallsOf(k, ResultRoutes)) <= 1
                  /\ Cardinality(CallsOf(k, {ROUTE_ERROR})) <= 1
           /\ Len(outbox) - Cardinality(notify) <= 2 * H

C2_Witness ==
    /\ handler = "done"
    /\ Len(message.hostnames) = 2
    /\ Len(outbox) = 5
    /\ \A k \in 1..Len(tasks) : tasks[k].pc \in Terminal

\* C3: an inbound message that fails decoding or validation (malformed
\* JSON, a missing field, an event outside the supported set) makes
\* call_handler call the publisher not once and start no per-host task.
C3_InvalidMessageDropped ==
    (Delivered /\ ~ValidRequest(message))
    => /\ outbox = <<>>
       /\ tasks = <<>>
       /\ handler \in {"created", "failed"}

C3_Witness ==
    /\ handler = "failed"
    /\ message.json
    /\ message.keys = BodyKeys
    /\ message.event \notin SupportedEvents
    /\ outbox = <<>>

\* C4: a message whose hostnames list is empty fails validation: no
\* receipt-acknowledgment is published for it and no task is started.
C4_EmptyHostnamesRejected ==
    (Delivered /\ message.json /\ "hostnames" \in message.keys
       /\ message.hostnames = <<>>)
    => outbox = <<>> /\ tasks = <<>>

\* C5: when the runner raises for a host, the task of that host calls the
\* publisher exactly once, for an error-notification with that host_ip,
\* never for a settings or status result, calls the runner once only, and
\* ends failed.
C5_RunnerExceptionRoutedAndReraised ==
    \A k \in 1..Len(tasks) :
        tasks[k].runner = "raised"
        => /\ Cardinality(CallsOf(k, {ROUTE_ERROR})) = 1
           /\ \A i \in CallsOf(k, {ROUTE_ERROR}) :
                  /\ outbox[i].host_ip = tasks[k].hostname
                  /\ outbox[i].category = "__PowerShell error"
           /\ CallsOf(k, ResultRoutes) = {}
           /\ tasks[k].invoked = 1
           /\ tasks[k].pc \in {"publish_exception", "failed"}

C5_Witness ==
    \E k \in 1..Len(tasks) :
        /\ tasks[k].runner = "raised"
        /\ tasks[k].pc = "failed"
        /\ tasks[k].exc = "RunnerError"

\* C6: for a task whose runner call returned, the publisher is called on
\* the settings-result route exactly when stdout is non-empty and the event
\* is Get-MpPreference, and on the status-result route exactly when stdout
\* is non-empty and the event is Get-MpComputerStatus.
C6_ResultRouteByEvent ==
    \A k \in 1..Len(tasks) :
        tasks[k].runner = "returned"
        => /\ (CallsOf(k, {ROUTE_SETTINGS}) # {})
                  <=> (tasks[k].out # <<>> /\ message.event = "Get-MpPreference")
           /\ (CallsOf(k, {ROUTE_STATUS}) # {})
                  <=> (tasks[k].out # <<>> /\ message.event = "Get-MpComputerStatus")
           /\ \A i \in CallsOf(k, ResultRoutes) :
                  outbox[i].host_ip = tasks[k].hostname

C6_Witness ==
    \E k \in 1..Len(tasks) :
        /\ tasks[k].runner = "returned"
        /\ message.event = "Get-MpComputerStatus"
        /\ \E i \in CallsOf(k, {ROUTE_STATUS}) : outbox[i].preferences # <<>>

\* C7: for every supported event, a task whose runner call returned with
\* stderr longer than one character publishes exactly one
\* error-notification, whatever stdout was; stderr of length 0 or 1
\* publishes none. (Stated of the tasks that have ended and in which no
\* call of the publisher raised.)
C7_StderrAlwaysRouted ==
    \A k \in 1..Len(tasks) :
        (tasks[k].runner = "returned" /\ tasks[k].pc \in Terminal
           /\ tasks[k].exc # "PublishError")
        => Cardinality(CallsOf(k, {ROUTE_ERROR}))
               = (IF Len(tasks[k].err) > 1 THEN 1 ELSE 0)


(************************ properties of the parser *************************)
Returned == parsed.called /\ parsed.raised = ""

\* C8: resolve_preferences is total: for every raw text and every event of
\* the supported command set it returns a sequence of records and raises
\* nothing.
C8_ResolvePreferencesTotal ==
    (parsed.called /\ parsed.event \in SupportedEvents) => parsed.raised = ""

\* the captured text without its braces and surrounding whitespace, and the
\* number a string of digits denotes in a base
WithoutBraces(s) == SelectSeq(s, LAMBDA c : c \notin {"{", "}"})

Trimmed(s) ==
    LET keep == {i \in 1..Len(s) : s[i] \notin {" ", "\t", "\n"}}
    IN  IF keep = {} THEN <<>>
        ELSE SubSeq(s, CHOOSE i \in keep : \A j \in keep : i <= j,
                       CHOOSE i \in keep : \A j \in keep : i >= j)

DecimalDigits == {"0", "1", "2", "3", "4", "5", "6", "7", "8", "9"}

AllDecimal(s) == s # <<>> /\ \A i \in 1..Len(s) : s[i] \in DecimalDigits

RECURSIVE Denotes(_, _, _)
Denotes(s, alphabet, acc) ==
    IF s = <<>> THEN acc
    ELSE Denotes(Tail(s), alphabet,
                 acc * Len(alphabet)
                     + (CHOOSE d \in 0..(Len(alphabet) - 1) : alphabet[d + 1] = Head(s)))

Decimal == <<"0", "1", "2", "3", "4", "5", "6", "7", "8", "9">>
Hexadecimal ==
    <<"0", "1", "2", "3", "4", "5", "6", "7", "8", "9", "a", "b", "c", "d", "e", "f">>

\* v is the text 0x<h> with h the hexadecimal numeral, without leading
\* zeros, of the number the decimal numeral c denotes
IsHexOf(v, c) ==
    /\ Len(v) >= 3
    /\ v[1] = "0" /\ v[2] = "x"
    /\ LET h == SubSeq(v, 3, Len(v))
       IN  /\ \A i \in 1..Len(h) : h[i] \in Range(Hexadecimal)
           /\ Len(h) = 1 \/ h[1] # "0"
           /\ Denotes(h, Hexadecimal, 0) = Denotes(c, Decimal, 0)

\* C9: for every field matched, the emitted value is the captured text with
\* every brace removed and the surrounding whitespace trimmed; when that is
\* made of decimal digits only, v, the value emitted is hex(int(v)); every
\* other value (negative numbers, digit lists) is emitted unchanged.
C9_ValueCleanedDigitsToHex ==
    Returned
    => \A r \in 1..Len(parsed.prefs) :
           LET at == re_search(parsed.prefs[r].pref_name, raw_text)
               cleaned == Trimmed(WithoutBraces(Group1(raw_text, at)))
               emitted == parsed.prefs[r].pref_val
           IN  /\ at # 0
               /\ IF AllDecimal(cleaned) THEN IsHexOf(emitted, cleaned)
                  ELSE emitted = cleaned

C9_Witness ==
    /\ Returned
    /\ \E r \in 1..Len(parsed.prefs) : parsed.prefs[r].pref_val = <<"0", "x", "a">>
    /\ \E r \in 1..Len(parsed.prefs) : parsed.prefs[r].pref_val = <<"-", "1">>

\* the text holds a match of  <field>\s*:\s<value>\n , the value being one
\* or more characters other than a newline
HasMatchingLine(s, field) ==
    \E i \in 1..Len(s) :
        /\ s[i] = field
        /\ \E c \in (i + 1)..(Len(s) - 3) :
               /\ s[c] = ":"
               /\ \A x \in (i + 1)..(c - 1) : s[x] \in {" ", "\t", "\n"}
               /\ s[c + 1] \in {" ", "\t", "\n"}
               /\ \E e \in (c + 3)..Len(s) :
                      /\ s[e] = "\n"
                      /\ \A x \in (c + 2)..(e - 1) : s[x] # "\n"

FieldSchema(event) ==
    IF event = "Get-MpPreference" THEN get_mp_prefs_list ELSE get_status_pref_list

RecursionLimit == 2

\* the broker operations begun in a behaviour
MaxOps == 2

CHANNEL_EXCEPTIONS ==
    {"ChannelNotFoundEntity", "ChannelPreconditionFailed",
     "ChannelInvalidStateError", "ChannelClosed", "AMQPChannelError"}

CONNECTION_EXCEPTIONS ==
    {"AMQPConnectionError", "AMQPError", "AMQPException", "AuthenticationError",
     "ConnectionClosed"}

\* the exceptions the bus library raises in the model, and the classes each
\* is an instance of (aio_pika.exceptions: the channel errors but
\* ChannelInvalidStateError derive from AMQPError, as the connection errors do)
Faults ==
    {"AMQPConnectionError", "ChannelClosed", "ChannelInvalidStateError",
     "TimeoutError"}

ExceptionBases(e) ==
    IF e = "AMQPConnectionError" THEN {"AMQPConnectionError", "AMQPError", "Exception"}
    ELSE IF e = "ChannelClosed"
    THEN {"ChannelClosed", "AMQPChannelError", "AMQPError", "Exception"}
    ELSE IF e = "ChannelInvalidStateError"
    THEN {"ChannelInvalidStateError", "RuntimeError", "Exception"}
    ELSE {e, "Exception"}

isinstance(e, classes) == ExceptionBases(e) \cap classes # {}

\* the except clause that handles e, the clauses being tried in the order
\* they are written
ExceptClause(e) ==
    IF isinstance(e, CONNECTION_EXCEPTIONS) THEN "CONNECTION_EXCEPTIONS"
    ELSE IF isinstance(e, CHANNEL_EXCEPTIONS) THEN "CHANNEL_EXCEPTIONS"
    ELSE "Exception"

BrokerOps == {"declare_exchange", "declare_queue", "bind_queue", "consume", "publish"}

\* the awaited calls of an operation, in order: "check" is
\* check_connection, the others are the calls on the channel, the queue or
\* the exchange inside the try block of the operation of that name
Program(op) ==
    IF op = "consume"
    THEN <<"check", "check", "declare_exchange", "check", "declare_queue",
           "check", "bind_queue", "consume">>
    ELSE IF op = "publish"
    THEN <<"check", "check", "declare_exchange", "publish">>
    ELSE <<"check", op>>

Stage(r) == Program(r.op)[r.stage]

\* the locals of an operation, gone once it has returned or raised
Left(r) ==
    [r EXCEPT !.pc = "", !.depth = 0, !.exchange_object = "unset",
              !.queue_object = "unset"]

\* the caller after the current call of its operation returned
Advance(r) ==
    IF r.stage = Len(Program(r.op))
    THEN [Left(r) EXCEPT !.status = "returned"]
    ELSE [r EXCEPT !.stage = r.stage + 1, !.pc = "start"]

\* the caller when exception e leaves the operation
Raise(r, e) == [Left(r) EXCEPT !.status = "raised", !.exc = e, !.at = r.pc]

Running(c) == callers[c].status = "running"

BrokerStep(c, r) ==
    /\ callers' = [callers EXCEPT ![c] = r]
    /\ UNCHANGED invocations
    /\ UNCHANGED <<parser_vars, dispatch_vars, service_vars>>

\* a coroutine calls an operation of the broker (the coroutines being
\* alike, c2 is the one that makes a call while c1 is in one)
Begin(c, op) ==
    /\ ~Running(c)
    /\ c = "c2" => Running("c1")
    /\ begun < MaxOps
    /\ begun' = begun + 1
    /\ BrokerStep(c, [NoCaller EXCEPT !.op = op, !.stage = 1, !.pc = "start",
                                      !.status = "running",
                                      !.queue_object =
                                          IF op = "bind_queue" THEN "object"
                                          ELSE "unset"])
    /\ UNCHANGED <<has_connection, has_channel, connection, fault_log>>

\* create_channel up to its suspension: the channel is opened on the
\* connection, or, without a connection object, create_connection is called
\* and no channel is opened
create_channel(r) ==
    IF connection # "None" THEN [r EXCEPT !.pc = "channel"]
    ELSE [r EXCEPT !.pc = "connect_only"]

\* faulty variant: the channel is not looked at
check_connection_connection_only(r) ==
    IF ~has_connection THEN [r EXCEPT !.pc = "connect"] ELSE Advance(r)

\* check_connection up to its first suspension
check_connection(r) ==
    IF ~has_connection THEN [r EXCEPT !.pc = "connect"]
    ELSE IF ~has_channel THEN create_channel(r)
    ELSE Advance(r)

CheckConnection(c) ==
    /\ Running(c) /\ Stage(callers[c]) = "check" /\ callers[c].pc = "start"
    /\ BrokerStep(c, check_connection(callers[c]))
    /\ UNCHANGED <<has_connection, has_channel, connection, begun, fault_log>>

\* connect_robust returned: every pending call of create_connection sets
\* has_connection and returns, and check_connection goes on to the channel
ConnectOk(c) ==
    /\ Running(c) /\ callers[c].pc \in {"connect", "connect_only"}
    /\ connection' = "open"
    /\ has_connection' = TRUE
    /\ LET r == [callers[c] EXCEPT !.depth = 0]
       IN  BrokerStep(c, IF r.pc = "connect" /\ ~has_channel
                         THEN [r EXCEPT !.pc = "channel"]
                         ELSE Advance(r))
    /\ UNCHANGED <<has_channel, begun, fault_log>>

\* connect_robust raised: has_connection is reset and, after the sleep,
\* create_connection calls itself; one call too deep raises RecursionError,
\* which no pending call catches
ConnectFail(c) ==
    /\ Running(c) /\ callers[c].pc \in {"connect", "connect_only"}
    /\ has_connection' = FALSE
    /\ BrokerStep(c, IF callers[c].depth + 1 < RecursionLimit
                     THEN [callers[c] EXCEPT !.depth = callers[c].depth + 1]
                     ELSE Raise(callers[c], "RecursionError"))
    /\ UNCHANGED <<has_channel, connection, begun, fault_log>>

\* connection.channel() returned
ChannelOk(c) ==
    /\ Running(c) /\ callers[c].pc = "channel"
    /\ has_channel' = TRUE
    /\ BrokerStep(c, [callers[c] EXCEPT !.pc = "set_qos"])
    /\ UNCHANGED <<has_connection, connection, begun, fault_log>>

\* connection.channel() raised e: both except clauses raise it again, the
\* one for CHANNEL_EXCEPTIONS after resetting has_connection
ChannelFail(c, e) ==
    /\ Running(c) /\ callers[c].pc = "channel"
    /\ has_connection' = IF isinstance(e, CHANNEL_EXCEPTIONS) THEN FALSE
                         ELSE has_connection
    /\ BrokerStep(c, Raise(callers[c], e))
    /\ UNCHANGED <<has_channel, connection, begun, fault_log>>

\* channel.set_qos returned: create_channel and check_connection return
SetQosOk(c) ==
    /\ Running(c) /\ callers[c].pc = "set_qos"
    /\ BrokerStep(c, Advance(callers[c]))
    /\ UNCHANGED <<has_connection, has_channel, connection, begun, fault_log>>

\* channel.set_qos raised e, outside the try block
SetQosFail(c, e) ==
    /\ Running(c) /\ callers[c].pc = "set_qos"
    /\ BrokerStep(c, Raise(callers[c], e))
    /\ UNCHANGED <<has_connection, has_channel, connection, begun, fault_log>>

\* the object the awaited call of a stage is made on: the queue handed to
\* bind_queue and consume, the exchange publish got from declare_exchange,
\* the channel otherwise
UsedObject(r) ==
    IF Stage(r) \in {"bind_queue", "consume"} THEN r.queue_object
    ELSE IF Stage(r) = "publish" THEN r.exchange_object
    ELSE "object"

\* the caller with the value a declare call returned
Returns(r, value) ==
    IF Stage(r) = "declare_exchange" THEN [r EXCEPT !.exchange_object = value]
    ELSE IF Stage(r) = "declare_queue" THEN [r EXCEPT !.queue_object = value]
    ELSE r

\* the flags after the except clause that handles e
FlagsAfter(e) ==
    IF ExceptClause(e) = "CONNECTION_EXCEPTIONS" THEN <<FALSE, FALSE>>
    ELSE IF ExceptClause(e) = "CHANNEL_EXCEPTIONS" THEN <<has_connection, FALSE>>
    ELSE <<has_connection, has_channel>>

\* the try block of an operation handles e: the flags are reset by the
\* except clause, the fault is logged and the operation returns None
Handle(c, e) ==
    /\ has_connection' = FlagsAfter(e)[1]
    /\ has_channel' = FlagsAfter(e)[2]
    /\ fault_log' = [op |-> Stage(callers[c]), exc |-> e,
                     before |-> <<has_connection, has_channel>>,
                     after |-> FlagsAfter(e)]
    /\ BrokerStep(c, Advance(Returns(callers[c], "None")))
    /\ UNCHANGED <<connection, begun>>

\* the call inside the try block, up to its suspension; made on None (what
\* a failed declare returned) it raises AttributeError at once
WorkStart(c) ==
    /\ Running(c) /\ Stage(callers[c]) # "check" /\ callers[c].pc = "start"
    /\ IF UsedObject(callers[c]) = "None"
       THEN Handle(c, "AttributeError")
       ELSE /\ BrokerStep(c, [callers[c] EXCEPT !.pc = "await"])
            /\ UNCHANGED <<has_connection, has_channel, connection, begun,
                           fault_log>>

\* the awaited call returned
WorkOk(c) ==
    /\ Running(c) /\ callers[c].pc = "await"
    /\ BrokerStep(c, Advance(Returns(callers[c], "object")))
    /\ UNCHANGED <<has_connection, has_channel, connection, begun, fault_log>>

\* the awaited call raised e
WorkFault(c, e) ==
    /\ Running(c) /\ callers[c].pc = "await"
    /\ Handle(c, e)

\* the steps of the coroutines: the bus topology and stop() are left out
NextBroker ==
    \/ \E c \in Callers, op \in BrokerOps : Begin(c, op) /\ UNCHANGED gateway_vars
    \/ \E c \in Callers : CheckConnection(c) /\ UNCHANGED gateway_vars
    \/ \E c \in Callers : ConnectOk(c) /\ UNCHANGED gateway_vars
    \/ \E c \in Callers : ConnectFail(c) /\ UNCHANGED gateway_vars
    \/ \E c \in Callers : ChannelOk(c) /\ UNCHANGED gateway_vars
    \/ \E c \in Callers, e \in Faults : ChannelFail(c, e) /\ UNCHANGED gateway_vars
    \/ \E c \in Callers : SetQosOk(c) /\ UNCHANGED gateway_vars
    \/ \E c \in Callers, e \in Faults : SetQosFail(c, e) /\ UNCHANGED gateway_vars
    \/ \E c \in Callers : WorkStart(c) /\ UNCHANGED gateway_vars
    \/ \E c \in Callers : WorkOk(c) /\ UNCHANGED gateway_vars
    \/ \E c \in Callers, e \in Faults : WorkFault(c, e) /\ UNCHANGED gateway_vars

SpecBroker == Init /\ [][NextBroker]_vars


(************************ properties of the broker *************************)
\* C11: publish never lets a fault through to its caller: whatever fails
\* while the connection and the channel are ensured, the exchange is
\* declared or the message is sent, publish returns normally.
C11_PublishNeverRaises ==
    \A c \in Callers : callers[c].op = "publish" => callers[c].status # "raised"

\* the faults of the connection and the faults of the channel
ConnectionLevel ==
    {e \in Faults : isinstance(e, {"AMQPConnectionError", "AuthenticationError",
                                   "ConnectionClosed"})}
ChannelLevel == {e \in Faults : isinstance(e, CHANNEL_EXCEPTIONS)}

\* C12: in declare_exchange, declare_queue and bind_queue a fault of the
\* connection resets has_connection and has_channel, and a fault of the
\* channel resets has_channel only and leaves has_connection as it was.
C12_FaultResetsFlagsByLevel ==
    fault_log.op \in {"declare_exchange", "declare_queue", "bind_queue"}
    => /\ fault_log.exc \in ConnectionLevel => fault_log.after = <<FALSE, FALSE>>
       /\ fault_log.exc \in ChannelLevel
              => fault_log.after = <<fault_log.before[1], FALSE>>

\* C13: an exception raised while the connection or the channel is opened
\* is swallowed: it never leaves check_connection.
C13_SetupFaultSwallowed ==
    \A c \in Callers :
        ~(callers[c].status = "raised" /\ callers[c].at \in {"channel", "set_qos"})

\* C14: create_connection never gives up: it is left only by a return,
\* after an attempt that succeeded, with has_connection set.
C14_ConnectionRetriedWithoutLimit ==
    \A c \in Callers :
        ~(callers[c].status = "raised" /\ callers[c].at \in {"connect", "connect_only"})

\* C15: every operation of the gateway starts with check_connection, which
\* opens a connection exactly when has_connection is false and a channel
\* exactly when has_channel is false; a call on the channel, the queue or
\* the exchange is made only after check_connection returned.
C15_EnsuredBeforeEveryOperation ==
    [][\A c \in Callers :
          LET r == callers[c]
              r2 == callers'[c]
          IN  /\ (r2.status = "running" /\ r2.stage = 1 /\ r2 # r)
                     => Stage(r2) = "check"
              /\ (r.status = "running" /\ r.pc = "start" /\ r2 # r
                      /\ Stage(r) = "check")
                     => /\ (r2.pc \in {"connect", "connect_only"}) <=> ~has_connection
                        /\ (r2.pc = "channel") <=> (has_connection /\ ~has_channel)
              /\ (r.status = "running" /\ r.pc = "connect" /\ r2.status = "running"
                      /\ r2.pc # "connect")
                     => /\ has_connection'
                        /\ (r2.pc = "channel") <=> ~has_channel
              /\ (r2.status = "running" /\ r2.pc = "await" /\ r2 # r)
                     => \E k \in 1..(r2.stage - 1) : Program(r2.op)[k] = "check"]_vars

\* a connection fault reset both flags, and an operation begun later makes
\* its call with the connection and the channel opened again
C15_Witness ==
    /\ fault_log.after = <<FALSE, FALSE>>
    /\ has_connection /\ has_channel
    /\ begun = 2
    /\ \E c \in Callers :
           /\ callers[c].status = "running" /\ callers[c].pc = "await"
           /\ \A d \in Callers \ {c} : callers[d].status = "returned"




(*************** the gateway called by one coroutine: stop *****************)
\* the calls of stop() in a behaviour
MaxStops == 2

\* the route an operation works on: publish is handed its destination, the
\* other operations read config.route_consume
RouteOf(r) == IF r.op = "publish" THEN "destination" ELSE "route_consume"

DeclareStages == {"declare_exchange", "declare_queue", "bind_queue"}

\* faulty variant: the entity gets a name of its own at every call
EntityNamedPerCall(r) == <<Stage(r), RouteOf(r), begun>>

\* what a declare or bind call names on the bus: the exchange (with its
\* type, durable), the queue (durable) or the binding of the route; the
\* arguments are those of the route at every call
Entity(r) == <<Stage(r), RouteOf(r)>>

\* the bus after the declaration of an entity: declaring what exists with
\* the same arguments changes nothing
Declared(bus, r) ==
    IF Stage(r) \in DeclareStages THEN bus \cup {Entity(r)} ELSE bus

\* the awaited call returned; a declaration is then on the bus
WorkOkOnBus(c) ==
    /\ WorkOk(c)
    /\ topology' = Declared(topology, callers[c])
    /\ declarations' = IF Stage(callers[c]) \in DeclareStages
                       THEN Append(declarations, <<Stage(callers[c]), RouteOf(callers[c])>>)
                       ELSE declarations
    /\ UNCHANGED <<stop_vars, object_vars, connections, prefetch>>

\* faulty variant: close() is called whatever self.connection is
stop_close_unguarded(conn) ==
    IF conn # "None" THEN "close" ELSE "AttributeError"

\* stop() up to its suspension: connection.close() is awaited when
\* self.connection is set, a closed connection included
stop(conn) == IF conn # "None" THEN "close" ELSE "return"

GatewayStep ==
    /\ UNCHANGED <<has_connection, has_channel, callers, begun, fault_log,
                   invocations, bus_vars, object_vars>>
    /\ UNCHANGED <<parser_vars, dispatch_vars, service_vars>>

Stop ==
    /\ ~Running("c1")
    /\ stopper # "closing"
    /\ stops < MaxStops
    /\ stops' = stops + 1
    /\ stopper' = IF stop(connection) = "close" THEN "closing"
                  ELSE IF stop(connection) = "return" THEN "returned"
                  ELSE "raised"
    /\ UNCHANGED connection
    /\ GatewayStep

\* connection.close() returned (at once for a connection closed before)
Closed ==
    /\ stopper = "closing"
    /\ stopper' = "returned"
    /\ connection' = "closed"
    /\ UNCHANGED stops
    /\ GatewayStep

\* connection.close() raised, while it closed an open connection
CloseFailed ==
    /\ stopper = "closing"
    /\ connection = "open"
    /\ stopper' = "raised"
    /\ UNCHANGED <<connection, stops>>
    /\ GatewayStep

\* one coroutine calls the operations of the gateway one after the other
NextGateway ==
    \/ \E op \in BrokerOps :
           stopper # "closing" /\ Begin("c1", op) /\ UNCHANGED gateway_vars
    \/ CheckConnection("c1") /\ UNCHANGED gateway_vars
    \/ ConnectOk("c1") /\ UNCHANGED gateway_vars
    \/ ConnectFail("c1") /\ UNCHANGED gateway_vars
    \/ ChannelOk("c1") /\ UNCHANGED gateway_vars
    \/ \E e \in Faults : ChannelFail("c1", e) /\ UNCHANGED gateway_vars
    \/ SetQosOk("c1") /\ UNCHANGED gateway_vars
    \/ \E e \in Faults : SetQosFail("c1", e) /\ UNCHANGED gateway_vars
    \/ WorkStart("c1") /\ UNCHANGED gateway_vars
    \/ WorkOkOnBus("c1")
    \/ \E e \in Faults : WorkFault("c1", e) /\ UNCHANGED gateway_vars
    \/ Stop /\ UNCHANGED <<connections, prefetch>>
    \/ Closed /\ UNCHANGED <<connections, prefetch>>
    \/ CloseFailed /\ UNCHANGED <<connections, prefetch>>

SpecGateway == Init /\ [][NextGateway]_vars

\* C23: stop() closes the connection when there is one and is idempotent:
\* a call of stop() returns with the connection closed, or None when none
\* was ever opened, and changes nothing else of the gateway; called again,
\* or with no connection, it changes nothing at all; it raises only what
\* closing an open connection raised.
C23_StopClosesAndIsIdempotent ==
    [][/\ (stopper' = "returned" /\ stopper # "returned")
              => /\ connection' = IF connection = "None" THEN "None" ELSE "closed"
                 /\ has_connection' = has_connection
                 /\ has_channel' = has_channel
                 /\ topology' = topology
       /\ (stopper' = "returned" /\ stops' > stops /\ stopper = "returned")
              => connection' = connection /\ connection # "open"
       /\ (stopper' = "raised" /\ stopper # "raised")
              => stopper = "closing" /\ connection = "open"]_vars

\* stop() called twice after a connection was opened, and returned twice
C23_Witness ==
    /\ stops = 2
    /\ stopper = "returned"
    /\ connection = "closed"
    /\ has_connection

\* C24: a declaration that returns leaves on the bus the entity the route
\* names and nothing else new, and leaves has_connection and has_channel
\* as they were; declaring an exchange, a queue or a binding that was
\* declared before, as every publish does with its destination exchange,
\* therefore changes neither the topology nor the flags.
C24_DeclareIdempotent ==
    [][declarations' # declarations
          => LET declared == declarations'[Len(declarations')]
             IN  /\ declarations' = Append(declarations, declared)
                 /\ topology' = topology \cup {declared}
                 /\ declared \in Range(declarations) => topology' = topology
                 /\ has_connection' = has_connection
                 /\ has_channel' = has_channel]_vars

\* a second publish has declared its destination exchange again
C24_Witness ==
    /\ begun = 2
    /\ callers["c1"].op = "publish"
    /\ callers["c1"].stage = 4
    /\ callers["c1"].exchange_object = "object"
    /\ declarations = <<<<"declare_exchange", "destination">>,
                         <<"declare_exchange", "destination">>>>
    /\ topology = {<<"declare_exchange", "destination">>}


(************* the connection and the channel as objects *******************)
\* the operations the coroutines call
SharedOps == {"declare_queue", "publish"}

\* self.connection and self.channel after a step of coroutine c:
\* "connected" is the assignment of the connection connect_robust returned,
\* a new object that supersedes the one held; "channel" is the assignment
\* of the channel that connection.channel() returned, opened on the
\* connection the call was made on
TrackObjects(c, assigned) ==
    /\ channel' = IF assigned = "connected"
                  THEN (IF channel = "None" THEN "None" ELSE "superseded")
                  ELSE IF assigned = "channel" THEN opening[c]
                  ELSE channel
    /\ opening' = [d \in Callers |->
                      IF d = c
                      THEN (IF callers'[c].pc = "channel" THEN "current" ELSE "")
                      ELSE IF assigned = "connected" /\ opening[d] # ""
                      THEN "superseded"
                      ELSE opening[d]]
    /\ UNCHANGED <<bus_vars, stop_vars, connections, prefetch>>

NextObjects ==
    \/ \E c \in Callers, op \in SharedOps : Begin(c, op) /\ TrackObjects(c, "")
    \/ \E c \in Callers : CheckConnection(c) /\ TrackObjects(c, "")
    \/ \E c \in Callers : ConnectOk(c) /\ TrackObjects(c, "connected")
    \/ \E c \in Callers : ConnectFail(c) /\ TrackObjects(c, "")
    \/ \E c \in Callers : ChannelOk(c) /\ TrackObjects(c, "channel")
    \/ \E c \in Callers, e \in Faults : ChannelFail(c, e) /\ TrackObjects(c, "")
    \/ \E c \in Callers : SetQosOk(c) /\ TrackObjects(c, "")
    \/ \E c \in Callers, e \in Faults : SetQosFail(c, e) /\ TrackObjects(c, "")
    \/ \E c \in Callers : WorkStart(c) /\ TrackObjects(c, "")
    \/ \E c \in Callers : WorkOk(c) /\ TrackObjects(c, "")
    \/ \E c \in Callers, e \in Faults : WorkFault(c, e) /\ TrackObjects(c, "")

SpecObjects == Init /\ [][NextObjects]_vars

\* C30: whenever has_connection and has_channel are both true, the channel
\* held was opened on the connection held.
C30_ChannelOnCurrentConnection ==
    (has_connection /\ has_channel) => channel = "current"


(************** the connections opened, and stop() at the end **************)
\* self.connection after connect_robust returned: the new connection is
\* assigned, and nothing closes the one that was held
Opened(held) == Append(held, "open")

\* the connections after connection.close() returned: close() was called
\* on self.connection, the last one assigned
ClosedLast(held) ==
    IF held = <<>> THEN held ELSE [held EXCEPT ![Len(held)] = "closed"]

\* the connections after a step of a coroutine in a broker operation
TrackConnections(assigned) ==
    /\ connections' = IF assigned = "connected" THEN Opened(connections)
                      ELSE connections
    /\ UNCHANGED <<bus_vars, stop_vars, object_vars, prefetch>>

NoOperationRunning == \A c \in Callers : ~Running(c)

\* two coroutines call operations of the gateway; once none is running
\* stop() is called, and no operation is begun after it
NextConnections ==
    \/ \E c \in Callers, op \in SharedOps :
           stops = 0 /\ Begin(c, op) /\ TrackConnections("")
    \/ \E c \in Callers : CheckConnection(c) /\ TrackConnections("")
    \/ \E c \in Callers : ConnectOk(c) /\ TrackConnections("connected")
    \/ \E c \in Callers : ConnectFail(c) /\ TrackConnections("")
    \/ \E c \in Callers : ChannelOk(c) /\ TrackConnections("")
    \/ \E c \in Callers, e \in Faults : ChannelFail(c, e) /\ TrackConnections("")
    \/ \E c \in Callers : SetQosOk(c) /\ TrackConnections("")
    \/ \E c \in Callers, e \in Faults : SetQosFail(c, e) /\ TrackConnections("")
    \/ \E c \in Callers : WorkStart(c) /\ TrackConnections("")
    \/ \E c \in Callers : WorkOk(c) /\ TrackConnections("")
    \/ \E c \in Callers, e \in Faults : WorkFault(c, e) /\ TrackConnections("")
    \/ NoOperationRunning /\ Stop /\ UNCHANGED <<connections, prefetch>>
    \/ Closed /\ connections' = ClosedLast(connections) /\ UNCHANGED prefetch
    \/ CloseFailed /\ UNCHANGED <<connections, prefetch>>

SpecConnections == Init /\ [][NextConnections]_vars

\* C31: once stop() has returned, every connection that connect_robust
\* ever returned to create_connection is closed.
C31_StopClosesEveryConnection ==
    stopper = "returned" => \A i \in 1..Len(connections) : connections[i] = "closed"


(****************** the prefetch count of the channel **********************)
\* set_qos on self.channel after a step of coroutine c: connection.channel()
\* returned and the channel is assigned, has_channel set and set_qos called
\* on it ("channel"); that call returned ("set") or raised ("unset"). A call
\* made on a channel that another one replaced in self.channel since says
\* nothing of the channel held.
TrackPrefetch(c, event) ==
    /\ prefetch' = IF event = "channel" THEN c
                   ELSE IF event \in {"set", "unset"} /\ prefetch = c THEN event
                   ELSE prefetch
    /\ UNCHANGED <<bus_vars, stop_vars, object_vars, connections>>

NextPrefetch ==
    \/ \E c \in Callers, op \in SharedOps : Begin(c, op) /\ TrackPrefetch(c, "")
    \/ \E c \in Callers : CheckConnection(c) /\ TrackPrefetch(c, "")
    \/ \E c \in Callers : ConnectOk(c) /\ TrackPrefetch(c, "")
    \/ \E c \in Callers : ConnectFail(c) /\ TrackPrefetch(c, "")
    \/ \E c \in Callers : ChannelOk(c) /\ TrackPrefetch(c, "channel")
    \/ \E c \in Callers, e \in Faults : ChannelFail(c, e) /\ TrackPrefetch(c, "")
    \/ \E c \in Callers : SetQosOk(c) /\ TrackPrefetch(c, "set")
    \/ \E c \in Callers, e \in Faults : SetQosFail(c, e) /\ TrackPrefetch(c, "unset")
    \/ \E c \in Callers : WorkStart(c) /\ TrackPrefetch(c, "")
    \/ \E c \in Callers : WorkOk(c) /\ TrackPrefetch(c, "")
    \/ \E c \in Callers, e \in Faults : WorkFault(c, e) /\ TrackPrefetch(c, "")

SpecPrefetch == Init /\ [][NextPrefetch]_vars

\* the stages whose awaited call is made on self.channel
ChannelStages == {"declare_exchange", "declare_queue"}

\* C32: a coroutine makes a call on self.channel only after set_qos has
\* returned for that channel.
C32_PrefetchSetBeforeOperations ==
    [][\A c \in Callers :
          (/\ callers[c].pc = "start"
           /\ callers'[c].pc = "await"
           /\ Stage(callers[c]) \in ChannelStages)
              => prefetch = "set"]_vars

(************************ the intake of messages ***************************)
\* the messages the bus delivers in a behaviour
MaxMessages == 4

\* prefetch_count of channel.set_qos (100 in the source, scaled down)
prefetch_count == 2

\* the positions of invocations that are in one of the states
InState(states) == {m \in 1..Len(invocations) : invocations[m] \in states}

\* the messages delivered and not acknowledged yet
Unacked == InState({"delivered"})

\* the bus hands the next message of the queue to the consumer: it does so
\* only while fewer than prefetch_count messages are unacknowledged
BusDelivers ==
    /\ Len(invocations) < MaxMessages
    /\ Cardinality(Unacked) < prefetch_count
    /\ invocations' = Append(invocations, "delivered")
    /\ UNCHANGED <<has_connection, has_channel, connection, callers, begun, fault_log>>
    /\ UNCHANGED <<gateway_vars, parser_vars, dispatch_vars, service_vars>>

InvocationStep(m, from, to) ==
    /\ invocations[m] = from
    /\ invocations' = [invocations EXCEPT ![m] = to]
    /\ UNCHANGED <<has_connection, has_channel, connection, callers, begun, fault_log>>
    /\ UNCHANGED <<gateway_vars, parser_vars, dispatch_vars, service_vars>>

\* _callback for message m: create_task schedules call_handler and returns,
\* the block of message.process() is left and the message acknowledged
callback(m) == InvocationStep(m, "delivered", "created")

\* call_handler for message m up to its first suspension, the publish of
\* the receipt-acknowledgment
call_handler_started(m) == InvocationStep(m, "created", "publish_notify")

\* call_handler for message m ended: the publisher returned and the
\* per-host tasks were created, or the publisher raised
call_handler_ended(m) == InvocationStep(m, "publish_notify", "ended")

NextIntake ==
    \/ BusDelivers
    \/ \E m \in 1..Len(invocations) : callback(m)
    \/ \E m \in 1..Len(invocations) : call_handler_started(m)
    \/ \E m \in 1..Len(invocations) : call_handler_ended(m)

SpecIntake == Init /\ [][NextIntake]_vars

\* C26: at any time the number of call_handler invocations that have been
\* started and have not ended is at most the prefetch count of the channel
\* (an invocation only scheduled is not counted as started).
C26_PrefetchCapsConcurrentHandlers ==
    Cardinality(InState({"publish_notify"})) <= prefetch_count

(********************** Configuration and start-up *************************)
\* the routes of a publish list in the routes file
MaxRoutes == 5

EXCHANGE_TYPES ==
    {"fanout", "direct", "topic", "headers", "x-delayed-message",
     "x-consistent-hash"}

ServiceTypes == {"publisher", "consumer", "all"}

\* the exchange_type values of the routes in the routes file
ExchangeTypeInputs == {"direct", "bogus"}

PublishLists ==
    UNION {[1..n -> ExchangeTypeInputs] : n \in 0..MaxRoutes}

\* a configuration: the type of the service, whether the routes file holds
\* a record for its identifier, the exchange_type of the consume route of
\* that record ("missing" without one) and of the routes of its publish list
Configs ==
    [type : ServiceTypes,
     record : BOOLEAN,
     consume : {"missing"} \cup ExchangeTypeInputs,
     publish : {[present |-> FALSE, routes |-> <<>>]}
                   \cup {[present |-> TRUE, routes |-> rs] : rs \in PublishLists}]

\* faulty variant: the validator of exchange_type accepts every value
RouteAnyExchangeType(exchange_type) == TRUE

\* Route: the validator of exchange_type
Route(exchange_type) == exchange_type \in EXCHANGE_TYPES

\* _take_routes: the exception it raises, "" when it returns
take_routes(cfg) ==
    IF ~cfg.record THEN "ValueError"
    ELSE IF cfg.type \in {"consumer", "all"} /\ cfg.consume = "missing" THEN "KeyError"
    ELSE IF cfg.type \in {"publisher", "all"} /\ ~cfg.publish.present THEN "KeyError"
    ELSE ""

\* broker_config['route_consume'] and handler_config['route_publish'] after
\* _take_routes: set only for the types that consume, that publish
route_consume(cfg) ==
    IF cfg.type \in {"consumer", "all"} THEN cfg.consume ELSE "None"

route_publish(cfg) ==
    IF cfg.type \in {"publisher", "all"}
    THEN [present |-> TRUE, routes |-> cfg.publish.routes]
    ELSE [present |-> FALSE, routes |-> <<>>]

\* _create_broker: RabbitConfig validates route_consume when there is one
create_broker(cfg) ==
    IF route_consume(cfg) # "None" /\ ~Route(route_consume(cfg))
    THEN "NotImplementedError"
    ELSE ""

\* faulty variant: more than four routes pass
check_routes_at_least_four(routes) ==
    IF Len(routes) < 4 THEN "ValueError" ELSE ""

\* _check_routes
check_routes(routes) ==
    IF Len(routes) # 4 THEN "ValueError" ELSE ""

\* prepare_handler: PowerShellConfig validates every route of route_publish,
\* then _check_routes takes len() of the list, which is None when the
\* service does not publish
prepare_handler(cfg) ==
    LET rp == route_publish(cfg)
    IN  IF \E i \in 1..Len(rp.routes) : ~Route(rp.routes[i]) THEN "ValidationError"
        ELSE IF ~rp.present THEN "TypeError"
        ELSE check_routes(rp.routes)

\* prepare_to_run: the first exception raised, "" when it returns
prepare_to_run(cfg) ==
    IF take_routes(cfg) # "" THEN take_routes(cfg)
    ELSE IF create_broker(cfg) # "" THEN create_broker(cfg)
    ELSE prepare_handler(cfg)

\* launch_service: prepare_to_run, whose exception ends the process
Prepare ==
    /\ service = "loaded"
    /\ service' = IF prepare_to_run(config) = "" THEN "prepared" ELSE "fatal"
    /\ UNCHANGED <<config, signalled, coordinators, stopping>>
    /\ UNCHANGED <<parser_vars, dispatch_vars, broker_vars>>

\* service_run: a service of type 'publisher' calls call_handler() without
\* its argument, which raises TypeError; the others create the task of
\* broker.consume() and run the loop
ServiceRun ==
    /\ service = "prepared"
    /\ service' = IF config.type = "publisher" THEN "fatal" ELSE "consuming"
    /\ UNCHANGED <<config, signalled, coordinators, stopping>>
    /\ UNCHANGED <<parser_vars, dispatch_vars, broker_vars>>

\* broker.consume() registered _callback on the queue
ConsumeStarted ==
    /\ service = "consuming"
    /\ ~(\E i \in 1..Len(coordinators) : <<"consume", 0>> \in coordinators[i].drain)
    /\ service' = "running"
    /\ UNCHANGED <<config, signalled, coordinators, stopping>>
    /\ UNCHANGED <<parser_vars, dispatch_vars, broker_vars>>

\* broker.consume() ended without a consumer on the queue: a fault of the
\* set-up was logged and swallowed (what a failed declare returned is None,
\* and the calls on it raise inside a try block), or check_connection
\* raised; the task created by service_run is done and nothing calls
\* consume() again
ConsumeFailed ==
    /\ service = "consuming"
    /\ ~(\E i \in 1..Len(coordinators) : <<"consume", 0>> \in coordinators[i].drain)
    /\ service' = "running_without_consumer"
    /\ UNCHANGED <<config, signalled, coordinators, stopping>>
    /\ UNCHANGED <<parser_vars, dispatch_vars, broker_vars>>

(************************* Shutdown Coordinator ****************************)
\* the signals _create_loop installs the handler for (two of the three)
Signals == {"SIGTERM", "SIGINT"}

\* the messages the bus delivers while the service runs
ServiceBodies ==
    {Body(TRUE, BodyKeys, <<"h1", "h2">>, 42, "Get-MpPreference", NoPreferences),
     Body(FALSE, {}, <<>>, 0, "", NoPreferences)}

LoopStopped == \E n \in 1..Len(stopping) : stopping[n].step = "loop.stop"

\* the tasks of the loop: the consume task, the call_handler task, the
\* per-host tasks and the coordinators; a task is settled when it is done
Settled(id) ==
    IF id[1] = "consume" THEN service # "consuming"
    ELSE IF id[1] = "handler" THEN handler \notin {"created", "publish_notify"}
    ELSE IF id[1] = "host" THEN tasks[id[2]].pc \in {"done", "failed", "cancelled"}
    ELSE coordinators[id[2]].pc \in {"stopped", "failed", "cancelled"}

LoopTasks ==
    {<<"consume", 0>>, <<"handler", 0>>}
        \cup {<<"host", k>> : k \in 1..Len(tasks)}
        \cup {<<"coordinator", i>> : i \in 1..Len(coordinators)}

\* asyncio.Task.all_tasks(): the tasks of the loop that are not done
all_tasks == {id \in LoopTasks : ~Settled(id)}

\* task.cancel() was called on the task: CancelledError is thrown into it
\* at its next step, and nothing of process_invoking_command, call_handler
\* or the broker catches it
CancelRequested(id) ==
    \E i \in 1..Len(coordinators) : id \in coordinators[i].drain

CanStep(id) == ~LoopStopped /\ ~CancelRequested(id)

\* _process_sig_callback_sync: the signal handler creates a coordinator task
SignalReceived(sig) ==
    /\ service \in {"consuming", "running", "running_without_consumer"}
    /\ ~LoopStopped
    /\ sig \notin signalled
    /\ signalled' = signalled \cup {sig}
    /\ coordinators' = Append(coordinators, [pc |-> "created", drain |-> {}])
    /\ UNCHANGED <<config, service, stopping>>
    /\ UNCHANGED <<parser_vars, dispatch_vars, broker_vars>>

StopCalled(i) == [step |-> "broker.stop", by |-> i, calls |-> Len(outbox)]

\* faulty variant: stop() is called without awaiting the cancelled tasks
process_sig_callback_no_gather(i, drain) ==
    /\ coordinators' = [coordinators EXCEPT ![i] = [pc |-> "stop_broker",
                                                    drain |-> drain]]
    /\ stopping' = Append(stopping, StopCalled(i))

\* _process_sig_callback up to its first suspension: every task but its own
\* is cancelled and gathered; with no task to gather it goes on to
\* broker.stop()
process_sig_callback(i, drain) ==
    IF drain = {}
    THEN /\ coordinators' = [coordinators EXCEPT ![i] = [pc |-> "stop_broker",
                                                         drain |-> drain]]
         /\ stopping' = Append(stopping, StopCalled(i))
    ELSE /\ coordinators' = [coordinators EXCEPT ![i] = [pc |-> "gather",
                                                         drain |-> drain]]
         /\ stopping' = stopping

CoordinatorStart(i) ==
    /\ coordinators[i].pc = "created"
    /\ CanStep(<<"coordinator", i>>)
    /\ process_sig_callback(i, all_tasks \ {<<"coordinator", i>>})
    /\ UNCHANGED <<config, service, signalled>>
    /\ UNCHANGED <<parser_vars, dispatch_vars, broker_vars>>

\* gather(*tasks, return_exceptions=True) returned, every task being done,
\* whatever its result: broker.stop() is called and awaits connection.close()
GatherDone(i) ==
    /\ coordinators[i].pc = "gather"
    /\ CanStep(<<"coordinator", i>>)
    /\ \A id \in coordinators[i].drain : Settled(id)
    /\ coordinators' = [coordinators EXCEPT ![i].pc = "stop_broker"]
    /\ stopping' = Append(stopping, StopCalled(i))
    /\ UNCHANGED <<config, service, signalled>>
    /\ UNCHANGED <<parser_vars, dispatch_vars, broker_vars>>

\* broker.stop() returned: stop_handler() runs without a suspension, then
\* loop.stop()
StopReturned(i) ==
    /\ coordinators[i].pc = "stop_broker"
    /\ CanStep(<<"coordinator", i>>)
    /\ coordinators' = [coordinators EXCEPT ![i].pc = "stopped"]
    /\ stopping' = stopping \o <<[step |-> "stop_handler", by |-> i,
                                  calls |-> Len(outbox)],
                                 [step |-> "loop.stop", by |-> i,
                                  calls |-> Len(outbox)]>>
    /\ UNCHANGED <<config, service, signalled>>
    /\ UNCHANGED <<parser_vars, dispatch_vars, broker_vars>>

\* connection.close() raised: the coordinator ends with that exception
StopRaised(i) ==
    /\ coordinators[i].pc = "stop_broker"
    /\ CanStep(<<"coordinator", i>>)
    /\ coordinators' = [coordinators EXCEPT ![i].pc = "failed"]
    /\ UNCHANGED <<config, service, signalled, stopping>>
    /\ UNCHANGED <<parser_vars, dispatch_vars, broker_vars>>

\* faulty variant: the clause 'except Exception' of the try block around
\* the runner catches the CancelledError, as it would were the class an
\* Exception
CancelledErrorCaught(t, k) ==
    IF t.pc = "invoke" THEN Except(t, k, "CancelledError")
    ELSE [task |-> [t EXCEPT !.pc = "cancelled"], calls |-> <<>>]

\* process_invoking_command when CancelledError is thrown into it where it
\* is suspended: the class derives from BaseException, the clause 'except
\* Exception' around the runner does not match it and the publishes are in
\* no try block, so the task ends cancelled and calls nothing
CancelledErrorThrown(t, k) ==
    [task |-> [t EXCEPT !.pc = "cancelled"], calls |-> <<>>]

\* a cancelled task gets CancelledError at its next step and ends
Cancelled(id) ==
    /\ ~LoopStopped
    /\ CancelRequested(id)
    /\ ~Settled(id)
    /\ IF id[1] = "consume"
       THEN /\ service' = "running_without_consumer"
            /\ UNCHANGED <<handler, tasks, coordinators>>
       ELSE IF id[1] = "handler"
       THEN /\ handler' = "cancelled"
            /\ UNCHANGED <<service, tasks, coordinators>>
       ELSE IF id[1] = "host"
       THEN /\ tasks' = [tasks EXCEPT ![id[2]] =
                             CancelledErrorThrown(tasks[id[2]], id[2]).task]
            /\ UNCHANGED <<service, handler, coordinators>>
       ELSE /\ coordinators' = [coordinators EXCEPT ![id[2]].pc = "cancelled"]
            /\ UNCHANGED <<service, handler, tasks>>
    /\ outbox' = IF id[1] = "host"
                 THEN outbox \o CancelledErrorThrown(tasks[id[2]], id[2]).calls
                 ELSE outbox
    /\ UNCHANGED <<config, signalled, stopping>>
    /\ UNCHANGED <<message, acked>>
    /\ UNCHANGED <<parser_vars, broker_vars>>

\* the bus delivers a message: the consumer is registered and the
\* connection has not been closed
Delivery(raw_body) ==
    /\ service = "running"
    /\ ~LoopStopped
    /\ stopping = <<>>
    /\ Deliver(raw_body)

NextService ==
    \/ Prepare
    \/ ServiceRun
    \/ ConsumeStarted
    \/ ConsumeFailed
    \/ \E raw_body \in ServiceBodies : Delivery(raw_body)
    \/ CanStep(<<"handler", 0>>) /\ HandlerStart
    \/ CanStep(<<"handler", 0>>) /\ HandlerSpawn
    \/ CanStep(<<"handler", 0>>) /\ HandlerPublishRaised
    \/ \E k \in 1..Len(tasks) : CanStep(<<"host", k>>) /\ TaskStart(k)
    \/ \E k \in 1..Len(tasks) : CanStep(<<"host", k>>) /\
           \E out \in Outs, err \in Errs : RunnerReturned(k, out, err)
    \/ \E k \in 1..Len(tasks) : CanStep(<<"host", k>>) /\ RunnerRaised(k)
    \/ \E k \in 1..Len(tasks) : CanStep(<<"host", k>>) /\ PublishReturned(k)
    \/ \E k \in 1..Len(tasks) : CanStep(<<"host", k>>) /\ PublishRaised(k)
    \/ \E sig \in Signals : SignalReceived(sig)
    \/ \E i \in 1..Len(coordinators) : CoordinatorStart(i)
    \/ \E i \in 1..Len(coordinators) : GatherDone(i)
    \/ \E i \in 1..Len(coordinators) : StopReturned(i)
    \/ \E i \in 1..Len(coordinators) : StopRaised(i)
    \/ \E id \in LoopTasks : Cancelled(id)

InitService ==
    /\ InitParser /\ InitDispatch /\ InitBroker /\ InitShutdown
    /\ config \in Configs
    /\ service = "loaded"

SpecService == InitService /\ [][NextService]_vars

\* the steps of the tasks of the event loop, which runs every task that is
\* ready; the signals, the messages and the faults of the bus are not
\* steps of the program
LoopSteps ==
    \/ Prepare
    \/ ServiceRun
    \/ ConsumeStarted \/ ConsumeFailed
    \/ CanStep(<<"handler", 0>>) /\ (HandlerStart \/ HandlerSpawn \/ HandlerPublishRaised)
    \/ \E k \in 1..Len(tasks) : CanStep(<<"host", k>>) /\ TaskNext(k)
    \/ \E i \in 1..Len(coordinators) :
           CoordinatorStart(i) \/ GatherDone(i) \/ StopReturned(i) \/ StopRaised(i)
    \/ \E id \in LoopTasks : Cancelled(id)

LiveSpecService == SpecService /\ WF_vars(LoopSteps)


(*********************** properties of the service *************************)
\* C16: every message handed to _callback is acknowledged exactly once,
\* whatever becomes of its handler (done, failed, cancelled), and at once:
\* the acknowledgment does not wait for the handler task, which is only
\* scheduled.
C16_AckOncePerDelivery ==
    /\ handler = "idle" => acked = 0
    /\ handler # "idle" => acked = 1

C16_Witness ==
    /\ acked = 1
    /\ handler = "cancelled"
    /\ message.json


\* C29: when consume() has ended without a consumer on the queue, the
\* service gets one later (unless a termination signal comes first): it is
\* never left for ever without a consumer.
C29_ConsumerEventuallyRegistered ==
    (service = "running_without_consumer" /\ signalled = {})
        ~> (service = "running" \/ signalled # {})

\* the entries of the shutdown log made by coordinator i
StepsOf(i) ==
    SelectSeq(stopping, LAMBDA entry : entry.by = i)

\* C17: a coordinator cancels every task but itself, calls the broker's
\* stop() only when all of them are done, whatever their results, then
\* stop_handler(), then loop.stop(), in that order.
C17_ShutdownInOrder ==
    \A i \in 1..Len(coordinators) :
        /\ <<"coordinator", i>> \notin coordinators[i].drain
        /\ StepsOf(i) # <<>> => \A id \in coordinators[i].drain : Settled(id)
        /\ coordinators[i].pc \in {"created", "gather"} => StepsOf(i) = <<>>
        /\ \E n \in 0..3 :
               /\ Len(StepsOf(i)) = n
               /\ \A m \in 1..n :
                      StepsOf(i)[m].step = <<"broker.stop", "stop_handler", "loop.stop">>[m]
        /\ coordinators[i].pc = "stopped" <=> Len(StepsOf(i)) = 3

C17_Witness ==
    \E i \in 1..Len(coordinators) :
        /\ coordinators[i].pc = "stopped"
        /\ Len(stopping) = 3
        /\ {<<"host", 1>>, <<"host", 2>>} \subseteq coordinators[i].drain
        /\ tasks[1].pc = "cancelled" /\ tasks[2].pc = "cancelled"

\* C18: when the broker's stop() is called every dispatch task (the
\* handler and the per-host tasks, those of messages delivered during the
\* drain included) is done, and no call of the publisher comes after it.
C18_TasksSettledBeforeStop ==
    stopping # <<>>
    => /\ handler \notin {"created", "publish_notify"}
       /\ \A k \in 1..Len(tasks) : tasks[k].pc \in {"done", "failed", "cancelled"}
       /\ Len(outbox) = stopping[1].calls

BadRouting(cfg) ==
    \/ ~cfg.record
    \/ cfg.type \in {"consumer", "all"} /\ cfg.consume = "missing"
    \/ ~cfg.publish.present
    \/ Len(cfg.publish.routes) # 4

\* C19: a service without a record in the routes file, without the consume
\* route it needs or with a publish list that has not exactly four routes
\* fails in prepare_to_run: its consumer is never started and no message is
\* handled.
C19_BadRoutingIsFatal ==
    BadRouting(config)
    => /\ service \in {"loaded", "fatal"}
       /\ handler = "idle" /\ acked = 0 /\ outbox = <<>>

C19_Witness ==
    /\ service = "fatal"
    /\ config.type = "all" /\ config.record /\ config.consume = "direct"
    /\ config.publish.routes = <<"direct", "direct", "direct", "direct", "direct">>

\* C20: a route with an exchange_type outside EXCHANGE_TYPES is rejected
\* when the configuration is loaded: the consumer is never started on such
\* a route and the publisher is never called with one, so the validation
\* of the destination in publish passes.
C20_ExchangeTypeCheckedAtLoad ==
    /\ service \in {"consuming", "running", "running_without_consumer"}
           => config.consume \in EXCHANGE_TYPES
    /\ \A n \in 1..Len(outbox) :
           config.publish.routes[outbox[n].route + 1] \in EXCHANGE_TYPES

C20_Witness ==
    /\ service = "fatal"
    /\ config.type = "all" /\ config.record /\ config.consume = "direct"
    /\ config.publish.routes = <<"direct", "direct", "bogus", "direct">>


(******************** properties of the per-host tasks *********************)
\* C21: the failure of a per-host task (the runner raised, the error was
\* routed, a publish raised) changes no other task of the job and nothing
\* already handed to the publisher, the receipt-acknowledgment included;
\* whatever became of its siblings, a task that has not ended can take its
\* next step, and no task is ever cancelled by another.
C21_PerHostIsolation ==
    /\ [](\A j \in 1..Len(tasks) :
              /\ tasks[j].pc \notin {"done", "failed"} => ENABLED TaskNext(j)
              /\ tasks[j].pc # "cancelled")
    /\ [][\A k \in 1..Len(tasks) :
              (Len(tasks') = Len(tasks) /\ tasks[k].pc # "failed"
                 /\ tasks'[k].pc = "failed")
              => /\ \A j \in 1..Len(tasks) : j # k => tasks'[j] = tasks[j]
                 /\ handler' = handler
                 /\ Len(outbox') >= Len(outbox)
                 /\ SubSeq(outbox', 1, Len(outbox)) = outbox]_vars

\* the task of the first host failed on a runner exception and routed its
\* error; after that the task of the second host published its result
C21_Witness ==
    /\ Len(tasks) = 2
    /\ tasks[1].pc = "failed" /\ tasks[1].runner = "raised"
    /\ tasks[2].pc = "done" /\ tasks[2].runner = "returned"
    /\ outbox[1].route = ROUTE_NOTIFY
    /\ \E i, j \in 1..Len(outbox) :
           /\ i < j
           /\ outbox[i].route = ROUTE_ERROR /\ outbox[i].task = 1
           /\ outbox[j].route \in ResultRoutes /\ outbox[j].task = 2

\* C22: for every valid Job Request, once call_handler has ended there is
\* exactly one per-host task per entry of hostnames, in list order and
\* without deduplication: task i is the task of hostnames[i].
C22_OneTaskPerHostname ==
    (ValidRequest(message) /\ handler \in {"done", "failed"})
    => /\ Len(tasks) = Len(message.hostnames)
       /\ \A i \in 1..Len(tasks) : tasks[i].hostname = message.hostnames[i]


\* C27: when the preferences of an otherwise valid Job Request fail the
\* validation of the event's model, then, once call_handler has ended,
\* every hostname has its task; that task never calls the runner, hands the
\* publisher no settings or status result and at most one
\* error-notification, and ends failed with exactly one.
C27_InvalidPreferencesRoutedPerHost ==
    (ValidRequest(message) /\ handler \in {"done", "failed"}
       /\ ~PreferencesValid(message.event, BodyPreferences(message)))
    => \A i \in 1..Len(message.hostnames) :
           /\ i <= Len(tasks)
           /\ tasks[i].invoked = 0 /\ tasks[i].runner = ""
           /\ CallsOf(i, ResultRoutes) = {}
           /\ Cardinality(CallsOf(i, {ROUTE_ERROR})) <= 1
           /\ tasks[i].pc \in {"created", "publish_exception", "failed"}
           /\ tasks[i].pc # "created"
                  => /\ Cardinality(CallsOf(i, {ROUTE_ERROR})) = 1
                     /\ \A n \in CallsOf(i, {ROUTE_ERROR}) :
                            /\ outbox[n].host_ip = message.hostnames[i]
                            /\ n > 1 /\ outbox[1].route = ROUTE_NOTIFY

\* C28: for every valid Job Request the publish of the
\* receipt-acknowledgment, whatever its outcome, is followed by the start
\* of the per-host tasks: call_handler never ends after that call without
\* having started one task per hostname.
C28_TasksStartedWhateverTheAckPublishDid ==
    (ValidRequest(message) /\ \E n \in 1..Len(outbox) : outbox[n].route = ROUTE_NOTIFY)
    => \/ handler = "publish_notify"
       \/ handler = "done" /\ Len(tasks) = Len(message.hostnames)

(****************** properties of the Connection Manager *******************)
\* C25: the flags are never left inconsistent: in every reachable state,
\* whatever the interleaving of the operations and the faults, has_channel
\* implies has_connection.
C25_ChannelFlagImpliesConnectionFlag ==
    has_channel => has_connection


(****************** properties of the shutdown and tasks *******************)
\* C33: a per-host task that a coordinator cancelled before it ended hands
\* nothing more to the publisher, an error-notification least of all, and
\* its only further step is to end cancelled.
C33_CancellationIsTerminal ==
    [][\A k \in 1..Len(tasks) :
          (CancelRequested(<<"host", k>>) /\ ~Settled(<<"host", k>>))
              => /\ Len(tasks') = Len(tasks)
                 /\ tasks'[k] \in {tasks[k], [tasks[k] EXCEPT !.pc = "cancelled"]}
                 /\ \A n \in Len(outbox) + 1..Len(outbox') : outbox'[n].task # k]_vars

\* the task of the first host was cancelled while it awaited the runner,
\* that of the second while it awaited the publish of its result; neither
\* handed an error-notification to the publisher
C33_Witness ==
    /\ Len(tasks) = 2
    /\ tasks[1].pc = "cancelled" /\ tasks[1].invoked = 1 /\ tasks[1].runner = ""
    /\ tasks[2].pc = "cancelled" /\ tasks[2].runner = "returned"
    /\ CallsOf(1, {ROUTE_ERROR, ROUTE_SETTINGS, ROUTE_STATUS}) = {}
    /\ Cardinality(CallsOf(2, ResultRoutes)) = 1
    /\ CallsOf(2, {ROUTE_ERROR}) = {}


\* the shutdown log holds an entry of the step
Logged(step) == \E n \in 1..Len(stopping) : stopping[n].step = step

\* C34: once a termination signal was received the shutdown completes,
\* however many signals follow and wherever the coordinators are when they
\* arrive: the broker's stop() and stop_handler() are called and the loop
\* is stopped.
C34_ShutdownEventuallyCompletes ==
    (signalled # {})
        ~> (Logged("broker.stop") /\ Logged("stop_handler") /\ Logged("loop.stop"))


(************************ properties of the parser *************************)
\* the text of s from position a to b lies on the line of the field name
\* at position i, after its colon: no newline from i to b, a colon between
\* the name and a, and the line ends after b
OnTheLineOf(s, i, a, b) ==
    /\ i < a /\ a <= b /\ b < Len(s)
    /\ \A x \in i..b : s[x] # "\n"
    /\ s[b + 1] = "\n"
    /\ \E c \in (i + 1)..(a - 1) : s[c] = ":"

\* C35: the value of every record returned is taken from a line on which
\* the name of its field occurs, from what follows the colon on that line;
\* a field whose lines all end at the colon has no record.
C35_ValueFromTheLineOfTheField ==
    Returned
    => \A r \in 1..Len(parsed.prefs) :
           \E i, a, b \in 1..Len(raw_text) :
               /\ raw_text[i] = parsed.prefs[r].pref_name
               /\ OnTheLineOf(raw_text, i, a, b)
               /\ parsed.prefs[r].pref_val = CleanValue(SubSeq(raw_text, a, b))

====
